---- MODULE Spec2Model ----
(***************************************************************************)
(* The hash-linked voting ledger of BlockChain.js: the blocks collection,  *)
(* createHash / isBlockValid / validateChain, getUserRole, canUserVote,    *)
(* addBlock, the POST /create_vote and POST /vote handlers and the GET     *)
(* /validate, /chain and /results handlers.  Every                         *)
(* handler is an async function: between two awaits its code runs without  *)
(* interruption, and the database operation it awaits takes effect at one  *)
(* instant.  One action is one such segment: the awaited operation         *)
(* completes and the code runs up to the next await.                       *)
(***************************************************************************)
EXTENDS Integers, Sequences, FiniteSets, TLC

\* ------------------------------------------------------------------ bounds
MaxTime == 1        \* the wall clock (milliseconds) runs over 0..MaxTime
MaxBlocks == 3      \* requests are admitted while the collection can stay within this size

\* ------------------------------------------------------- program constants
ThirtyDays == 30    \* default life of a vote when the request names no endDate

\* ------------------------------------------------------------ environment
Procs == {"r1", "r2"}                 \* request handlers that may be in flight together
UserIds == {"a1", "u1", "x9"}         \* ids a request may carry; x9 is no user document
VoteIds == {"v1"}
Candidates == {"A", "Z", ""}          \* "" is a missing field
OptionInputs == {<<"A", "B">>, <<"Z">>, <<>>}  \* the options array of a /create_vote body
EndDateInputs == {<<>>, <<1>>}        \* endDate of a /create_vote body: absent, or an instant

\* The users collection: _id -> status; "" is a document without a status field.
usersCollection == [a1 |-> "admin", u1 |-> ""]

VARIABLES
  blocksCollection,  \* the documents of the blocks collection, in insertion order
  now,               \* the wall clock read by new Date()
  pc,                \* per request handler: the await it is suspended at
  req,               \* per request handler: the request body
  userInfo,          \* per request handler: what getUserRole returned
  newBlock,          \* per request handler: the block addBlock is building
  res,               \* the response the last step sent, NoRes when it sent none
  edited,            \* the edit made to a stored document behind the server's back, if any
  reader             \* the GET /results handler: the await it is at, its voteId and voteBlock

vars == <<blocksCollection, now, pc, req, userInfo, newBlock, res, edited, reader>>

\* ------------------------------------------------------- documents (objects)
\* A JavaScript object is the sequence of its <<key, value>> pairs in insertion order.
Has(obj, key) == \E i \in 1..Len(obj) : obj[i][1] = key

Get(obj, key) == obj[CHOOSE i \in 1..Len(obj) : obj[i][1] = key][2]

\* obj[key] = value: in place when the key exists, appended otherwise
Put(obj, key, value) ==
  IF Has(obj, key)
  THEN [i \in 1..Len(obj) |-> IF obj[i][1] = key THEN <<key, value>> ELSE obj[i]]
  ELSE Append(obj, <<key, value>>)

\* delete obj[key]
Delete(obj, key) == SelectSeq(obj, LAMBDA kv : kv[1] # key)

\* Object.keys(o).sort() over the field names blocks carry (UTF-16 code unit order)
SortedKeys ==
  <<"candidate", "creationDate", "creatorId", "description", "endDate", "groupIds",
    "options", "previousHash", "title", "type", "voteId", "voterId">>

\* ----------------------------------------------------------------- hashing
\* the fields in the order the block carries them, the sort of the keys left out
unorderedBlock(blockForHashing) == blockForHashing

orderedBlock(blockForHashing) ==
  LET present == SelectSeq(SortedKeys, LAMBDA k : Has(blockForHashing, k))
  IN  [i \in 1..Len(present) |-> <<present[i], Get(blockForHashing, present[i])>>]

\* JSON.stringify of a field's value: a Date (its instant), an array of strings, a string
StringifyValue(key, value) ==
  IF key \in {"creationDate", "endDate", "options", "groupIds"} THEN ToString(value)
  ELSE "\"" \o value \o "\""

RECURSIVE StringifyFields(_)
StringifyFields(obj) ==
  IF obj = <<>> THEN ""
  ELSE "\"" \o obj[1][1] \o "\":" \o StringifyValue(obj[1][1], obj[1][2])
       \o (IF Len(obj) > 1 THEN "," ELSE "") \o StringifyFields(Tail(obj))

JSONstringify(obj) == "{" \o StringifyFields(obj) \o "}"

\* a hash over the linkage fields alone, leaving the payload out
createHashOfLinkage(block) ==
  "sha256(" \o JSONstringify(<< <<"creationDate", Get(block, "creationDate")>>,
                                <<"previousHash", Get(block, "previousHash")>> >>) \o ")"

\* sha256 over JSON.stringify: the digest is a collision-free image of the text
createHash(block) ==
  "sha256(" \o JSONstringify(orderedBlock(Delete(Delete(block, "hash"), "_id"))) \o ")"

isBlockValid(block) == Get(block, "hash") = createHash(block)

\* --------------------------------------------------------------- validation
\* the loop with the linkage check left out
RECURSIVE ValidateRestHashOnly(_, _, _)
ValidateRestHashOnly(blocks, i, previousHash) ==
  IF i >= Len(blocks)
  THEN [valid |-> TRUE, message |-> "chain valid", blockIndex |-> -1]
  ELSE IF ~isBlockValid(blocks[i + 1])
  THEN [valid |-> FALSE, message |-> "block: hash does not match content", blockIndex |-> i]
  ELSE ValidateRestHashOnly(blocks, i + 1, Get(blocks[i + 1], "hash"))

\* the loop testing the link of a block before its hash
RECURSIVE ValidateRestLinkFirst(_, _, _)
ValidateRestLinkFirst(blocks, i, previousHash) ==
  IF i >= Len(blocks)
  THEN [valid |-> TRUE, message |-> "chain valid", blockIndex |-> -1]
  ELSE LET block == blocks[i + 1] IN
       IF Get(block, "previousHash") # previousHash
       THEN [valid |-> FALSE, message |-> "block: wrong previous hash", blockIndex |-> i]
       ELSE IF ~isBlockValid(block)
       THEN [valid |-> FALSE, message |-> "block: hash does not match content", blockIndex |-> i]
       ELSE ValidateRestLinkFirst(blocks, i + 1, Get(block, "hash"))

\* lines 102-127: the loop over the blocks after the first
RECURSIVE ValidateRest(_, _, _)
ValidateRest(blocks, i, previousHash) ==
  IF i >= Len(blocks)
  THEN [valid |-> TRUE, message |-> "chain valid", blockIndex |-> -1]
  ELSE LET block == blocks[i + 1] IN
       IF ~isBlockValid(block)
       THEN [valid |-> FALSE, message |-> "block: hash does not match content", blockIndex |-> i]
       ELSE IF Get(block, "previousHash") # previousHash
       THEN [valid |-> FALSE, message |-> "block: wrong previous hash", blockIndex |-> i]
       ELSE ValidateRest(blocks, i + 1, Get(block, "hash"))

\* validateChain over the array the sorted find returned
ValidateBlocks(blocks) ==
  IF Len(blocks) = 0
  THEN [valid |-> TRUE, message |-> "chain empty", blockIndex |-> -1]
  ELSE LET firstBlock == blocks[1] IN
       IF ~isBlockValid(firstBlock)
       THEN [valid |-> FALSE, message |-> "first block: hash does not match content", blockIndex |-> 0]
       ELSE IF Get(firstBlock, "previousHash") # "0"
       THEN [valid |-> FALSE, message |-> "first block: previousHash must be 0", blockIndex |-> 0]
       ELSE ValidateRest(blocks, 1, Get(firstBlock, "hash"))

\* ------------------------------------------------------------- the database
Orderings(n) == {f \in [1..n -> 1..n] : \A i, j \in 1..n : i # j => f[i] # f[j]}

\* find({}).sort({creationDate: 1}): the documents by ascending creationDate; the order
\* of documents with equal creationDate is not specified by the database.
SortedFinds(coll) ==
  LET creationDate == [i \in 1..Len(coll) |-> Get(coll[i], "creationDate")] IN
  {f \in Orderings(Len(coll)) :
     \A i \in 1..(Len(coll) - 1) : creationDate[f[i]] <= creationDate[f[i + 1]]}

Sorted(coll, f) == [i \in 1..Len(coll) |-> coll[f[i]]]

\* findOne({}, {sort: {creationDate: -1}}): a document of greatest creationDate
LastBlocks(coll) ==
  {i \in 1..Len(coll) :
     \A j \in 1..Len(coll) : Get(coll[j], "creationDate") <= Get(coll[i], "creationDate")}

\* findOne({voterId, voteId, type: "vote"})
ExistingVotes(coll, voterId, voteId) ==
  {i \in 1..Len(coll) :
     /\ Get(coll[i], "type") = "vote"
     /\ Get(coll[i], "voterId") = voterId
     /\ Get(coll[i], "voteId") = voteId}

\* findOne({voteId, type: "create_vote"})
VoteBlocks(coll, voteId) ==
  {i \in 1..Len(coll) :
     Get(coll[i], "type") = "create_vote" /\ Get(coll[i], "voteId") = voteId}

\* an insert that writes over the last document instead of adding one
InsertedOverLast(coll, block) ==
  IF coll = <<>> THEN <<<<<<"_id", 1>>>> \o block>>
  ELSE [coll EXCEPT ![Len(coll)] = <<<<"_id", Len(coll)>>>> \o block]

\* insertOne: the driver gives the document a fresh _id; the stored document leads with it
Inserted(coll, block) == Append(coll, <<<<"_id", Len(coll) + 1>>>> \o block)

\* ---------------------------------------------------------------- identity
Null == [resolved |-> FALSE, status |-> ""]

\* the direct lookup: findOne on users, status defaulting to "user"
DirectRole(userId) ==
  IF userId \in DOMAIN usersCollection
  THEN [resolved |-> TRUE,
        status |-> IF usersCollection[userId] = "" THEN "user" ELSE usersCollection[userId]]
  ELSE Null

\* getUserRole: the direct lookup answers, or it throws and the auth server is asked,
\* which answers with the user's role or not at all (HTTP error, network error).
GetUserRoleResults(userId) == {DirectRole(userId), Null}

\* a null userInfo taken for an admin
IsNotAdminUnlessNull(info) == info.resolved /\ info.status # "admin"

\* line 315: !userInfo || userInfo.status !== "admin"
IsNotAdmin(info) == ~info.resolved \/ info.status # "admin"

\* line 177: userInfo && userInfo.status === "admin"
IsAdmin(info) == info.resolved /\ info.status = "admin"

\* ------------------------------------------------------------------- state
NoReq == [voteId |-> "", userId |-> "", candidate |-> "", options |-> <<>>, endDate |-> <<>>]
NoRes == [status |-> 0, error |-> "", body |-> <<>>,
          details |-> [valid |-> TRUE, message |-> "", blockIndex |-> -1]]
NoDetails == NoRes.details
NoEdit == [index |-> 0, field |-> "", rehashed |-> FALSE]
NoReader == [pc |-> "idle", voteId |-> "", voteBlock |-> <<>>]

Respond(status, error, details) ==
  [status |-> status, error |-> error, body |-> <<>>, details |-> details]

\* res.json(body)
RespondJson(body) == [status |-> 200, error |-> "", body |-> body, details |-> NoDetails]

InFlight == {p \in Procs : pc[p] # "idle"}

Init ==
  /\ blocksCollection = <<>>
  /\ now = 0
  /\ pc = [p \in Procs |-> "idle"]
  /\ req = [p \in Procs |-> NoReq]
  /\ userInfo = [p \in Procs |-> Null]
  /\ newBlock = [p \in Procs |-> <<>>]
  /\ res = NoRes
  /\ edited = NoEdit
  /\ reader = NoReader

\* the clock advances; readings taken within one millisecond are equal
Tick ==
  /\ now < MaxTime
  /\ now' = now + 1
  /\ res' = NoRes
  /\ UNCHANGED <<blocksCollection, pc, req, userInfo, newBlock, edited, reader>>

\* the handler answers and returns: its locals are gone
Finish(p, response) ==
  /\ pc' = [pc EXCEPT ![p] = "idle"]
  /\ res' = response
  /\ req' = [req EXCEPT ![p] = NoReq]
  /\ userInfo' = [userInfo EXCEPT ![p] = Null]
  /\ newBlock' = [newBlock EXCEPT ![p] = <<>>]

\* A request is taken by the first free handler (handlers are interchangeable).
Admit(p) ==
  /\ pc[p] = "idle"
  /\ p = "r2" => pc["r1"] # "idle"
  /\ Len(blocksCollection) + Cardinality(InFlight) < MaxBlocks

\* getUserRole awaits a read of the users collection, which no handler writes: the read
\* returns the same at whatever instant it takes effect, so it is taken with the segment
\* that calls it.

\* ------------------------------------------------------ POST /create_vote
\* lines 305-320: the body check (400), getUserRole and the admin check (403); past both
\* the duplicate lookup is issued.  The three outcomes of the if-chain are the disjuncts.
CreateVoteRequest(p) ==
  /\ Admit(p)
  /\ \/ /\ \E options \in OptionInputs : Len(options) = 0
        /\ Finish(p, Respond(400, "missing data", NoDetails))
     \/ /\ \E creatorId \in UserIds, options \in OptionInputs :
             /\ Len(options) # 0
             /\ \E info \in GetUserRoleResults(creatorId) : IsNotAdmin(info)
        /\ Finish(p, Respond(403, "only admins create votes", NoDetails))
     \/ \E voteId \in VoteIds, creatorId \in UserIds, options \in OptionInputs,
           endDate \in EndDateInputs :
          /\ Len(options) # 0
          /\ \E info \in GetUserRoleResults(creatorId) :
               /\ ~IsNotAdmin(info)
               /\ userInfo' = [userInfo EXCEPT ![p] = info]
          /\ req' = [req EXCEPT ![p] = [voteId |-> voteId, userId |-> creatorId,
                                        candidate |-> "", options |-> options,
                                        endDate |-> endDate]]
          /\ pc' = [pc EXCEPT ![p] = "create_vote:findOne"]
          /\ newBlock' = newBlock
          /\ res' = NoRes
  /\ UNCHANGED <<blocksCollection, now, edited, reader>>

\* lines 320-357 and 209: the duplicate lookup returns; the end date; the block is built
\* and addBlock is entered, which issues validateChain's find
CreateVoteExisting(p) ==
  /\ pc[p] = "create_vote:findOne"
  /\ IF VoteBlocks(blocksCollection, req[p].voteId) # {}
     THEN Finish(p, Respond(400, "vote exists", NoDetails))
     ELSE LET currentDate == now
              finalEndDate == IF req[p].endDate # <<>> THEN req[p].endDate[1]
                              ELSE now + ThirtyDays
          IN  IF req[p].endDate # <<>> /\ finalEndDate <= currentDate
              THEN Finish(p, Respond(400, "end date must be in the future", NoDetails))
              ELSE /\ newBlock' = [newBlock EXCEPT ![p] =
                        << <<"type", "create_vote">>,
                           <<"voteId", req[p].voteId>>,
                           <<"creatorId", req[p].userId>>,
                           <<"endDate", finalEndDate>>,
                           <<"title", "T">>,
                           <<"description", "D">>,
                           <<"options", req[p].options>>,
                           <<"groupIds", <<"all">> >> >>]
                   /\ pc' = [pc EXCEPT ![p] = "addBlock:validateChain"]
                   /\ UNCHANGED <<req, userInfo>> /\ res' = NoRes
  /\ UNCHANGED <<blocksCollection, now, edited, reader>>

\* ------------------------------------------------------------- POST /vote
\* lines 372-382: the body check (400); canUserVote: getUserRole, admins are turned away
\* (403); past both the ballot lookup is issued.  The three outcomes are the disjuncts.
VoteRequest(p) ==
  /\ Admit(p)
  /\ \/ /\ \E candidate \in Candidates : candidate = ""
        /\ Finish(p, Respond(400, "missing data", NoDetails))
     \/ /\ \E voterId \in UserIds, candidate \in Candidates :
             /\ candidate # ""
             /\ \E info \in GetUserRoleResults(voterId) : IsAdmin(info)
        /\ Finish(p, Respond(403, "admins cannot vote", NoDetails))
     \/ \E voterId \in UserIds, voteId \in VoteIds, candidate \in Candidates :
          /\ candidate # ""
          /\ \E info \in GetUserRoleResults(voterId) :
               /\ ~IsAdmin(info)
               /\ userInfo' = [userInfo EXCEPT ![p] = info]
          /\ req' = [req EXCEPT ![p] = [voteId |-> voteId, userId |-> voterId,
                                        candidate |-> candidate, options |-> <<>>,
                                        endDate |-> <<>>]]
          /\ pc' = [pc EXCEPT ![p] = "vote:findOne(vote)"]
          /\ newBlock' = newBlock
          /\ res' = NoRes
  /\ UNCHANGED <<blocksCollection, now, edited, reader>>

\* canUserVote going on to the vote lookup whatever the ballot lookup returned
VoteExistingUnchecked(p) ==
  /\ pc[p] = "vote:findOne(vote)"
  /\ pc' = [pc EXCEPT ![p] = "vote:findOne(create_vote)"]
  /\ res' = NoRes
  /\ UNCHANGED <<blocksCollection, now, req, userInfo, newBlock, edited, reader>>

\* lines 182-188: the ballot lookup returns; the vote lookup is issued
VoteExisting(p) ==
  /\ pc[p] = "vote:findOne(vote)"
  /\ IF ExistingVotes(blocksCollection, req[p].userId, req[p].voteId) # {}
     THEN Finish(p, Respond(403, "already voted", NoDetails))
     ELSE /\ pc' = [pc EXCEPT ![p] = "vote:findOne(create_vote)"]
          /\ UNCHANGED <<req, userInfo, newBlock>> /\ res' = NoRes
  /\ UNCHANGED <<blocksCollection, now, edited, reader>>

\* the /vote handler building the ballot without looking for the vote or at its options
VoteOpenUnchecked(p) ==
  /\ pc[p] = "vote:findOne(create_vote)"
  /\ newBlock' = [newBlock EXCEPT ![p] =
        << <<"type", "vote">>,
           <<"voterId", req[p].userId>>,
           <<"voteId", req[p].voteId>>,
           <<"candidate", req[p].candidate>> >>]
  /\ pc' = [pc EXCEPT ![p] = "addBlock:validateChain"]
  /\ res' = NoRes
  /\ UNCHANGED <<blocksCollection, now, req, userInfo, edited, reader>>

\* lines 188-198, 381-399 and 209: the vote lookup returns; the deadline and the candidate
\* are checked, the ballot is built and addBlock is entered
VoteOpen(p) ==
  /\ pc[p] = "vote:findOne(create_vote)"
  /\ IF VoteBlocks(blocksCollection, req[p].voteId) = {}
     THEN Finish(p, Respond(403, "no such vote", NoDetails))
     ELSE \E i \in VoteBlocks(blocksCollection, req[p].voteId) :
            LET voteBlock == blocksCollection[i] IN
            IF Get(voteBlock, "endDate") < now
            THEN Finish(p, Respond(403, "vote has ended", NoDetails))
            ELSE IF \A k \in 1..Len(Get(voteBlock, "options")) :
                      Get(voteBlock, "options")[k] # req[p].candidate
            THEN Finish(p, Respond(400, "invalid option", NoDetails))
            ELSE /\ newBlock' = [newBlock EXCEPT ![p] =
                      << <<"type", "vote">>,
                         <<"voterId", req[p].userId>>,
                         <<"voteId", req[p].voteId>>,
                         <<"candidate", req[p].candidate>> >>]
                 /\ pc' = [pc EXCEPT ![p] = "addBlock:validateChain"]
                 /\ UNCHANGED <<req, userInfo>> /\ res' = NoRes
  /\ UNCHANGED <<blocksCollection, now, edited, reader>>

\* ---------------------------------------------------------------- addBlock
\* addBlock going on whatever validateChain returned
AddBlockValidateIgnored(p) ==
  /\ pc[p] = "addBlock:validateChain"
  /\ pc' = [pc EXCEPT ![p] = "addBlock:findOne"]
  /\ res' = NoRes
  /\ UNCHANGED <<blocksCollection, now, req, userInfo, newBlock, edited, reader>>

\* lines 72-132 and 209-219: the sorted find returns, the chain is validated
AddBlockValidate(p) ==
  /\ pc[p] = "addBlock:validateChain"
  /\ \E f \in SortedFinds(blocksCollection) :
       LET chainValidation == ValidateBlocks(Sorted(blocksCollection, f)) IN
       IF ~chainValidation.valid
       THEN Finish(p, Respond(500, "chain is damaged", chainValidation))
       ELSE /\ pc' = [pc EXCEPT ![p] = "addBlock:findOne"]
            /\ UNCHANGED <<req, userInfo, newBlock>> /\ res' = NoRes
  /\ UNCHANGED <<blocksCollection, now, edited, reader>>

\* lines 219-230: the last block is found, the block is linked, dated and hashed
AddBlockLink(p) ==
  /\ pc[p] = "addBlock:findOne"
  /\ \E previousHash \in IF blocksCollection = <<>> THEN {"0"}
                         ELSE {Get(blocksCollection[i], "hash") : i \in LastBlocks(blocksCollection)} :
       LET linked == Put(Put(newBlock[p], "previousHash", previousHash), "creationDate", now)
       IN  newBlock' = [newBlock EXCEPT ![p] = Put(linked, "hash", createHash(linked))]
  /\ pc' = [pc EXCEPT ![p] = "addBlock:insertOne"]
  /\ res' = NoRes
  /\ UNCHANGED <<blocksCollection, now, req, userInfo, edited, reader>>

\* lines 230-231 and the handler's answer: the insert takes effect
AddBlockInsert(p) ==
  /\ pc[p] = "addBlock:insertOne"
  /\ blocksCollection' = Inserted(blocksCollection, newBlock[p])
  /\ Finish(p, Respond(200, "", NoDetails))
  /\ UNCHANGED <<now, edited, reader>>

Next ==
  \/ Tick
  \/ \E p \in Procs : CreateVoteRequest(p)
  \/ \E p \in Procs : CreateVoteExisting(p)
  \/ \E p \in Procs : VoteRequest(p)
  \/ \E p \in Procs : VoteExisting(p)
  \/ \E p \in Procs : VoteOpen(p)
  \/ \E p \in Procs : AddBlockValidate(p)
  \/ \E p \in Procs : AddBlockLink(p)
  \/ \E p \in Procs : AddBlockInsert(p)

Spec == Init /\ [][Next]_vars

\* Requests served strictly one after the other: a single handler is ever in flight.
SeqNext ==
  \/ Tick
  \/ CreateVoteRequest("r1")
  \/ CreateVoteExisting("r1")
  \/ VoteRequest("r1")
  \/ VoteExisting("r1")
  \/ VoteOpen("r1")
  \/ AddBlockValidate("r1")
  \/ AddBlockLink("r1")
  \/ AddBlockInsert("r1")

SpecSeq == Init /\ [][SeqNext]_vars

\* ------------------------------------------------------------ the readers
GroupIdInputs == {"", "g1"}           \* the groupId of a GET /chain query, "" when absent

\* lines 428-430: voteBlock.options.forEach(option => { results[option] = 0 })
RECURSIVE ZeroResults(_, _)
ZeroResults(results, options) ==
  IF options = <<>> THEN results
  ELSE ZeroResults(Put(results, Head(options), 0), Tail(options))

\* lines 432-436: votes.forEach(vote => { if (results[vote.candidate] !== undefined) ++ })
RECURSIVE CountVotes(_, _)
CountVotes(results, votes) ==
  IF votes = <<>> THEN results
  ELSE LET candidate == Get(Head(votes), "candidate") IN
       CountVotes(IF Has(results, candidate)
                  THEN Put(results, candidate, Get(results, candidate) + 1)
                  ELSE results,
                  Tail(votes))

\* find({voteId, type: "vote"}).toArray()
Votes(coll, voteId) ==
  SelectSeq(coll, LAMBDA b : Get(b, "type") = "vote" /\ Get(b, "voteId") = voteId)

\* lines 249-258: the blocks a /chain query with this groupId is answered with
FilteredBlocks(blocks, userGroupId) ==
  IF userGroupId = "" THEN blocks
  ELSE SelectSeq(blocks, LAMBDA block :
         \/ Get(block, "type") # "create_vote"
         \/ \E k \in 1..Len(Get(block, "groupIds")) :
              Get(block, "groupIds")[k] \in {"all", userGroupId})

\* GET /validate, lines 268-271: validateChain's find returns, its result is the answer
ValidateRequest ==
  /\ reader.pc = "idle"
  /\ \E f \in SortedFinds(blocksCollection) :
       res' = [RespondJson(<<>>) EXCEPT !.details = ValidateBlocks(Sorted(blocksCollection, f))]
  /\ UNCHANGED <<blocksCollection, now, pc, req, userInfo, newBlock, edited, reader>>

\* GET /chain, lines 239-258: the find returns, the blocks are filtered and sent
ChainRequest ==
  /\ reader.pc = "idle"
  /\ \E userGroupId \in GroupIdInputs :
       res' = RespondJson(FilteredBlocks(blocksCollection, userGroupId))
  /\ UNCHANGED <<blocksCollection, now, pc, req, userInfo, newBlock, edited, reader>>

\* GET /results/:voteId, lines 413-424: the vote lookup returns (404 without a vote); the
\* ballots' find is issued.  The request touches no state before the lookup takes effect,
\* so its arrival is taken with it.
ResultsRequest ==
  /\ reader.pc = "idle"
  /\ \E voteId \in VoteIds :
       IF VoteBlocks(blocksCollection, voteId) = {}
       THEN /\ res' = Respond(404, "no such vote", NoDetails)
            /\ reader' = NoReader
       ELSE /\ \E i \in VoteBlocks(blocksCollection, voteId) :
                 reader' = [pc |-> "results:find", voteId |-> voteId,
                            voteBlock |-> blocksCollection[i]]
            /\ res' = NoRes
  /\ UNCHANGED <<blocksCollection, now, pc, req, userInfo, newBlock, edited>>

\* lines 424-449: the ballots' find returns, they are counted and the tally is sent
ResultsVotes ==
  /\ reader.pc = "results:find"
  /\ LET votes == Votes(blocksCollection, reader.voteId)
         results == CountVotes(ZeroResults(<<>>, Get(reader.voteBlock, "options")), votes)
     IN  res' = RespondJson(<< <<"voteId", reader.voteId>>,
                               <<"title", Get(reader.voteBlock, "title")>>,
                               <<"totalVotes", Len(votes)>>,
                               <<"results", results>>,
                               <<"isActive", Get(reader.voteBlock, "endDate") > now>> >>)
  /\ reader' = NoReader
  /\ UNCHANGED <<blocksCollection, now, pc, req, userInfo, newBlock, edited>>

\* The writers together with the read-only endpoints.
ReadNext ==
  \/ Next
  \/ ValidateRequest
  \/ ChainRequest
  \/ ResultsRequest
  \/ ResultsVotes

SpecRead == Init /\ [][ReadNext]_vars

\* ------------------------------------------------ edits made in the database
\* what validateChain can return in the current state
ValidateChainResults ==
  {ValidateBlocks(Sorted(blocksCollection, f)) : f \in SortedFinds(blocksCollection)}

ContentFields == SortedKeys     \* every field but hash and _id

\* the values an edit may write over a field
EditValues(block, field) ==
  IF field \in {"creationDate", "endDate"} THEN 0..(MaxTime + 1)
  ELSE IF field \in {"options", "groupIds"} THEN {<<"edited">>}
  ELSE IF field = "previousHash"
  THEN {"0", "edited"} \cup {Get(blocksCollection[j], "hash") : j \in 1..Len(blocksCollection)}
  ELSE {"edited"}

\* an edit finds the server at rest and a chain validateChain accepts
Editable ==
  /\ edited = NoEdit
  /\ InFlight = {}
  /\ \A r \in ValidateChainResults : r.valid

\* One field of one stored document is overwritten; rehash says whether the document's
\* hash is recomputed after.
EditField(i, field, value, rehash) ==
  /\ Has(blocksCollection[i], field)
  /\ value # Get(blocksCollection[i], field)
  /\ LET changed == Put(blocksCollection[i], field, value) IN
     blocksCollection' = [blocksCollection EXCEPT ![i] =
                            IF rehash THEN Put(changed, "hash", createHash(changed))
                            ELSE changed]
  /\ edited' = [index |-> i, field |-> field, rehashed |-> rehash]
  /\ res' = NoRes
  /\ UNCHANGED <<now, pc, req, userInfo, newBlock, reader>>

EditContent ==
  /\ Editable
  /\ \E i \in 1..Len(blocksCollection),
        field \in {ContentFields[k] : k \in 1..Len(ContentFields)} :
       \E value \in EditValues(blocksCollection[i], field) : EditField(i, field, value, FALSE)

EditLinkRehashed ==
  /\ Editable
  /\ \E i \in 1..Len(blocksCollection) :
       \E value \in EditValues(blocksCollection[i], "previousHash") :
         EditField(i, "previousHash", value, TRUE)

\* The server runs until the edit; the chain is then looked at as the edit left it.
TamperNext ==
  \/ edited = NoEdit /\ Tick
  \/ \E p \in Procs : edited = NoEdit /\ CreateVoteRequest(p)
  \/ \E p \in Procs : edited = NoEdit /\ CreateVoteExisting(p)
  \/ \E p \in Procs : edited = NoEdit /\ VoteRequest(p)
  \/ \E p \in Procs : edited = NoEdit /\ VoteExisting(p)
  \/ \E p \in Procs : edited = NoEdit /\ VoteOpen(p)
  \/ \E p \in Procs : edited = NoEdit /\ AddBlockValidate(p)
  \/ \E p \in Procs : edited = NoEdit /\ AddBlockLink(p)
  \/ \E p \in Procs : edited = NoEdit /\ AddBlockInsert(p)
  \/ EditContent
  \/ EditLinkRehashed

SpecTamper == Init /\ [][TamperNext]_vars

\* ------------------------------------------------------------------ claims
Stored(i) == blocksCollection[i]
Indices == 1..Len(blocksCollection)
IsVote(b) == Get(b, "type") = "vote"
IsCreateVote(b) == Get(b, "type") = "create_vote"

\* C1: no two stored entries have the same previousHash (at most one append extends a
\* given tail; in particular at most one entry has previousHash "0").
C1_OneSuccessorPerTail ==
  \A i, j \in Indices :
    i # j => Get(Stored(i), "previousHash") # Get(Stored(j), "previousHash")

\* C2: the store holds at most one entry of type "vote" per (voterId, voteId) pair.
C2_OneBallotPerVoterAndVote ==
  \A i, j \in Indices :
    (i # j /\ IsVote(Stored(i)) /\ IsVote(Stored(j)))
      => ~(/\ Get(Stored(i), "voterId") = Get(Stored(j), "voterId")
           /\ Get(Stored(i), "voteId") = Get(Stored(j), "voteId"))

\* C3: the store holds at most one entry of type "create_vote" per voteId.
C3_OneDefinitionPerVoteId ==
  \A i, j \in Indices :
    (i # j /\ IsCreateVote(Stored(i)) /\ IsCreateVote(Stored(j)))
      => Get(Stored(i), "voteId") # Get(Stored(j), "voteId")

\* C4: taken in creationDate order, the stored entries satisfy I1 (each hash is createHash
\* of its entry), I2 (the first entry has previousHash "0") and I3 (every other entry's
\* previousHash is the hash of the entry right before it).
C4_ChainInvariants ==
  \A f \in SortedFinds(blocksCollection) :
    LET chain == Sorted(blocksCollection, f) IN
    /\ \A k \in 1..Len(chain) : Get(chain[k], "hash") = createHash(chain[k])
    /\ Len(chain) > 0 => Get(chain[1], "previousHash") = "0"
    /\ \A k \in 2..Len(chain) : Get(chain[k], "previousHash") = Get(chain[k - 1], "hash")

\* C5 (under SpecSeq): after any sequence of addBlock calls that do not overlap, whatever
\* the clock read, validateChain returns valid: true.
C5_SequentialChainValidates ==
  \A r \in ValidateChainResults : r.valid

InAddBlock(p) ==
  pc[p] \in {"addBlock:validateChain", "addBlock:findOne", "addBlock:insertOne"}

\* C6: when the chain validation of addBlock reports invalid, addBlock answers with the
\* failure carrying the validator's result and the store is unchanged; it goes on to link
\* a block only past a validation that reported valid.
C6_RefusesBrokenChain ==
  [][\A p \in Procs :
       (pc[p] = "addBlock:validateChain" /\ pc'[p] # pc[p]) =>
         /\ (\A r \in ValidateChainResults : ~r.valid) => pc'[p] = "idle"
         /\ pc'[p] = "idle" =>
              /\ res'.status = 500
              /\ res'.error = "chain is damaged"
              /\ ~res'.details.valid
              /\ res'.details \in ValidateChainResults
              /\ blocksCollection' = blocksCollection
         /\ pc'[p] # "idle" =>
              /\ pc'[p] = "addBlock:findOne"
              /\ \E r \in ValidateChainResults : r.valid]_vars

\* an addBlock has just refused a chain broken at a block after the first
C6_Witness ==
  /\ res.status = 500
  /\ ~res.details.valid
  /\ res.details.blockIndex >= 1
  /\ Len(blocksCollection) >= 2

\* the index validateChain has for the edited document in the order f of its find
EditedIndex(f) == (CHOOSE k \in 1..Len(blocksCollection) : f[k] = edited.index) - 1

HashReasons ==
  {"first block: hash does not match content", "block: hash does not match content"}

LinkReason(index) ==
  IF index = 0 THEN "first block: previousHash must be 0" ELSE "block: wrong previous hash"

\* C7 as stated (under SpecTamper): a valid chain with any one content field of one entry
\* changed and its hash left alone fails validation with blockIndex that entry's index in
\* the ordered chain.
C7_AnyFieldReportedAtItsIndex ==
  (edited # NoEdit /\ ~edited.rehashed) =>
    \A f \in SortedFinds(blocksCollection) :
      LET r == ValidateBlocks(Sorted(blocksCollection, f)) IN
      ~r.valid /\ r.blockIndex = EditedIndex(f)

\* C7 as amended (under SpecTamper): such a change always fails validation; blockIndex is
\* the entry's index whenever the changed field is not creationDate, the field the chain
\* is ordered by.
C7_EditDetected ==
  (edited # NoEdit /\ ~edited.rehashed) =>
    \A f \in SortedFinds(blocksCollection) :
      LET r == ValidateBlocks(Sorted(blocksCollection, f)) IN
      /\ ~r.valid
      /\ edited.field # "creationDate" => r.blockIndex = EditedIndex(f)

\* a payload field of the second block of a chain has been changed
C7_Witness ==
  /\ edited.index = 2
  /\ ~edited.rehashed
  /\ edited.field \in {"candidate", "voterId", "voteId"}
  /\ \E r \in ValidateChainResults : r.blockIndex = 1

\* C8 as stated (under SpecTamper): a valid chain with one entry's previousHash replaced
\* fails validation at that entry's index with the reason naming the broken link.
C8_LinkEditNamedAsLink ==
  (edited # NoEdit /\ edited.field = "previousHash") =>
    \A f \in SortedFinds(blocksCollection) :
      LET r == ValidateBlocks(Sorted(blocksCollection, f)) IN
      /\ ~r.valid
      /\ r.blockIndex = EditedIndex(f)
      /\ r.message = LinkReason(r.blockIndex)

\* C8 as amended (under SpecTamper): the replacement fails validation at that entry's
\* index; the reason names the broken link when the entry's hash was recomputed over the
\* new previousHash, and names the hash mismatch when the hash was left alone.
C8_LinkEditDetected ==
  (edited # NoEdit /\ edited.field = "previousHash") =>
    \A f \in SortedFinds(blocksCollection) :
      LET r == ValidateBlocks(Sorted(blocksCollection, f)) IN
      /\ ~r.valid
      /\ r.blockIndex = EditedIndex(f)
      /\ edited.rehashed => r.message = LinkReason(r.blockIndex)
      /\ ~edited.rehashed => r.message \in HashReasons
      /\ LinkReason(r.blockIndex) \notin HashReasons

\* the previousHash of the second block was replaced and its hash recomputed
C8_Witness ==
  /\ edited.field = "previousHash"
  /\ edited.rehashed
  /\ edited.index = 2
  /\ \E r \in ValidateChainResults : r.message = "block: wrong previous hash"

\* C9: a /create_vote request goes past the role check only with a lookup that reported
\* admin; turned away, it leaves the store unchanged; every create_vote entry appended
\* comes from a handler whose lookup reported admin.
C9_OnlyAdminsCreate ==
  [][/\ \A p \in Procs :
          (pc[p] = "idle" /\ pc'[p] = "create_vote:findOne") =>
            (userInfo'[p].resolved /\ userInfo'[p].status = "admin")
     /\ res'.error = "only admins create votes" => blocksCollection' = blocksCollection
     /\ \A p \in Procs :
          (/\ pc[p] = "addBlock:insertOne"
           /\ blocksCollection' # blocksCollection
           /\ IsCreateVote(newBlock[p])) =>
            /\ userInfo[p].resolved /\ userInfo[p].status = "admin"
            /\ DirectRole(Get(newBlock[p], "creatorId")).status = "admin"]_vars

\* a vote definition is stored and a /create_vote request has just been turned away
C9_Witness ==
  /\ \E i \in Indices : IsCreateVote(Stored(i))
  /\ res.status = 403
  /\ res.error = "only admins create votes"

\* C10: no entry is appended for a caller getUserRole did not resolve.
C10_FailsClosed ==
  [][\A p \in Procs :
       (pc[p] = "addBlock:insertOne" /\ blocksCollection' # blocksCollection)
         => userInfo[p].resolved]_vars

\* C11: canUserVote turns away every caller whose lookup reported admin, whatever the
\* store holds, and no ballot is appended for one; a caller who is let past the role check
\* and has a ballot for the same (voterId, voteId) in the store when the ballot lookup
\* returns is answered "already voted", before the vote is looked up at all, and the
\* store is unchanged.
C11_AdminsAndRepeatVotersDenied ==
  [][\A p \in Procs :
       /\ (pc[p] = "idle" /\ pc'[p] = "vote:findOne(vote)") =>
            ~(userInfo'[p].resolved /\ userInfo'[p].status = "admin")
       /\ (/\ pc[p] = "vote:findOne(vote)"
           /\ pc'[p] # pc[p]
           /\ \E i \in Indices :
                /\ IsVote(Stored(i))
                /\ Get(Stored(i), "voterId") = req[p].userId
                /\ Get(Stored(i), "voteId") = req[p].voteId) =>
            /\ pc'[p] = "idle"
            /\ res'.status = 403
            /\ res'.error = "already voted"
            /\ blocksCollection' = blocksCollection
       /\ (/\ pc[p] = "addBlock:insertOne"
           /\ blocksCollection' # blocksCollection
           /\ IsVote(newBlock[p])) =>
            ~(userInfo[p].resolved /\ userInfo[p].status = "admin")]_vars

\* a voter whose ballot is stored has just been answered "already voted"
C11_Witness ==
  /\ res.status = 403
  /\ res.error = "already voted"
  /\ \E i \in Indices : IsVote(Stored(i))

\* the stored vote definitions a ballot's voteId names
Definitions(ballot) ==
  {i \in Indices : IsCreateVote(Stored(i)) /\ Get(Stored(i), "voteId") = Get(ballot, "voteId")}

\* C12: every stored ballot has a creationDate strictly before the endDate of the vote
\* definition it references (of one of them, where the store holds several for the voteId).
C12_BallotsBeforeEndDate ==
  \A i \in Indices :
    IsVote(Stored(i)) =>
      \E d \in Definitions(Stored(i)) :
        Get(Stored(i), "creationDate") < Get(Stored(d), "endDate")

\* C13: no two stored entries have the same creationDate, and an entry inserted after
\* another has the strictly greater creationDate.
C13_KeysStrictlyIncreasing ==
  \A i, j \in Indices :
    i < j => Get(Stored(i), "creationDate") < Get(Stored(j), "creationDate")

\* C14 (under SpecRead): no step changes or removes a stored entry; the store changes only
\* by the insert of an addBlock, which adds exactly one entry at the end and is answered
\* with success; a request answered with a failure, and every step of validateChain,
\* canUserVote, /chain, /validate and /results, leaves the store as it is.
C14_AppendOnly ==
  [][/\ Len(blocksCollection') >= Len(blocksCollection)
     /\ SubSeq(blocksCollection', 1, Len(blocksCollection)) = blocksCollection
     /\ blocksCollection' # blocksCollection =>
          /\ Len(blocksCollection') = Len(blocksCollection) + 1
          /\ \E p \in Procs :
               /\ pc[p] = "addBlock:insertOne"
               /\ pc'[p] = "idle"
               /\ Delete(blocksCollection'[Len(blocksCollection')], "_id") = newBlock[p]
          /\ res'.status = 200
          /\ reader' = reader
     /\ (res'.status \in {400, 403, 404, 500} \/ res'.body # <<>>) =>
          blocksCollection' = blocksCollection]_vars

\* an append has just succeeded on a store that held an entry, with a /results request
\* between its two reads
C14_Witness ==
  /\ Len(blocksCollection) >= 2
  /\ res.status = 200
  /\ res.body = <<>>
  /\ res.details = NoDetails
  /\ reader.pc = "results:find"

\* the stored ballots for a voteId, and those of them for a candidate
Ballots(voteId) == {i \in Indices : IsVote(Stored(i)) /\ Get(Stored(i), "voteId") = voteId}
BallotsFor(voteId, candidate) ==
  {i \in Ballots(voteId) : Get(Stored(i), "candidate") = candidate}

RECURSIVE SumCounters(_)
SumCounters(results) ==
  IF results = <<>> THEN 0 ELSE Head(results)[2] + SumCounters(Tail(results))

\* C15 (under SpecRead): the tally /results sends for a voteId has one counter per option
\* of the vote definition, each the number of stored ballots for that voteId and
\* candidate; totalVotes is the number of stored ballots for the voteId; the counters sum
\* to totalVotes; without a definition for the voteId the answer is 404.
C15_TallyMatchesStore ==
  [][/\ (reader.pc = "results:find" /\ reader'.pc = "idle") =>
          LET options == Get(reader.voteBlock, "options")
              results == Get(res'.body, "results")
          IN  /\ res'.status = 200
              /\ Get(res'.body, "totalVotes") = Cardinality(Ballots(reader.voteId))
              /\ {results[k][1] : k \in 1..Len(results)} =
                   {options[k] : k \in 1..Len(options)}
              /\ \A k \in 1..Len(results) :
                   results[k][2] = Cardinality(BallotsFor(reader.voteId, results[k][1]))
              /\ SumCounters(results) = Get(res'.body, "totalVotes")
     /\ (reader.pc = "idle" /\ res'.status = 404) =>
          \A i \in Indices : ~IsCreateVote(Stored(i))
     /\ (reader.pc = "idle" /\ reader'.pc = "results:find") =>
          \E i \in Indices : IsCreateVote(Stored(i)) /\ Stored(i) = reader'.voteBlock]_vars

\* the same fields put into an object in another order: all of them reversed, one of them
\* changing places with the first or with its neighbour
Swapped(obj, a, b) ==
  [k \in 1..Len(obj) |-> IF k = a THEN obj[b] ELSE IF k = b THEN obj[a] ELSE obj[k]]
Reversed(obj) == [k \in 1..Len(obj) |-> obj[Len(obj) + 1 - k]]
Reorderings(obj) ==
  {Reversed(obj)} \cup
  {Swapped(obj, 1, b) : b \in 2..Len(obj)} \cup
  {Swapped(obj, b - 1, b) : b \in 3..Len(obj)}

\* the entries createHash is applied to: the stored documents and the blocks being added
HashedEntries ==
  {Stored(i) : i \in Indices} \cup {newBlock[p] : p \in {q \in Procs : newBlock[q] # <<>>}}

HashCheck(chain, k) == Get(chain[k], "hash") = createHash(chain[k])
LinkCheck(chain, k) ==
  Get(chain[k], "previousHash") = IF k = 1 THEN "0" ELSE Get(chain[k - 1], "hash")

\* C17 (under SpecTamper): over every snapshot the sorted find may return, validateChain
\* returns valid: true exactly when no entry fails a check; otherwise valid: false with
\* blockIndex the smallest index of a failing entry, and the reason is the hash mismatch
\* when that entry fails the hash check, the broken link only when it passes it.
C17_ValidateChainCharacterised ==
  \A f \in SortedFinds(blocksCollection) :
    LET chain == Sorted(blocksCollection, f)
        r == ValidateBlocks(chain)
        failing == {k \in 1..Len(chain) : ~HashCheck(chain, k) \/ ~LinkCheck(chain, k)}
    IN  /\ r.valid <=> failing = {}
        /\ r.valid => r.blockIndex = -1
        /\ ~r.valid =>
             LET first == CHOOSE k \in failing : \A j \in failing : k <= j IN
             /\ r.blockIndex = first - 1
             /\ r.message = IF ~HashCheck(chain, first)
                            THEN IF first = 1 THEN "first block: hash does not match content"
                                 ELSE "block: hash does not match content"
                            ELSE LinkReason(first - 1)

\* the link of an entry after the first was replaced and its hash left alone: the entry
\* fails both checks and the hash mismatch is what is reported
C17_Witness ==
  /\ edited.field = "previousHash"
  /\ ~edited.rehashed
  /\ edited.index >= 2
  /\ \E f \in SortedFinds(blocksCollection) :
       LET chain == Sorted(blocksCollection, f) IN
       \E k \in 2..Len(chain) :
         /\ ~HashCheck(chain, k) /\ ~LinkCheck(chain, k)
         /\ \A j \in 1..(k - 1) : HashCheck(chain, j) /\ LinkCheck(chain, j)
         /\ ValidateBlocks(chain).message = "block: hash does not match content"

\* C18: when the vote lookup of canUserVote returns and the current time is at or after
\* the endDate of the vote definition (of every definition the voteId has), the caller is
\* answered "vote has ended"; the handler goes on to add a ballot only when the current
\* time is strictly before an endDate.
C18_ClosedAtEndDate ==
  [][\A p \in Procs :
       (pc[p] = "vote:findOne(create_vote)" /\ pc'[p] # pc[p]) =>
         LET ends == {Get(Stored(i), "endDate") :
                        i \in VoteBlocks(blocksCollection, req[p].voteId)} IN
         /\ (ends # {} /\ \A endDate \in ends : now >= endDate) =>
              /\ pc'[p] = "idle"
              /\ res'.status = 403
              /\ res'.error = "vote has ended"
         /\ pc'[p] = "addBlock:validateChain" => \E endDate \in ends : now < endDate]_vars

\* the options of a stored vote definition, as a set
Options(d) == {Get(Stored(d), "options")[k] : k \in 1..Len(Get(Stored(d), "options"))}

BallotsReferToVotes ==
  \A i \in Indices :
    IsVote(Stored(i)) =>
      \E d \in Definitions(Stored(i)) : Get(Stored(i), "candidate") \in Options(d)

\* C19: every stored ballot names a voteId that has a vote definition in the store, and
\* its candidate is one of that definition's options; a /vote request for a voteId
\* without a definition, or with a candidate that is an option of no definition of the
\* voteId, is turned away and the store is unchanged.
C19_BallotsReferToVotes ==
  [][/\ BallotsReferToVotes'
     /\ \A p \in Procs :
          (pc[p] = "vote:findOne(create_vote)" /\ pc'[p] # pc[p]) =>
            LET definitions == VoteBlocks(blocksCollection, req[p].voteId) IN
            /\ definitions = {} =>
                 pc'[p] = "idle" /\ res'.status = 403 /\ res'.error = "no such vote"
            /\ (\A d \in definitions : req[p].candidate \notin Options(d)) =>
                 /\ pc'[p] = "idle"
                 /\ res'.status \in {400, 403}
                 /\ blocksCollection' = blocksCollection
     /\ res'.error \in {"no such vote", "invalid option"} =>
          blocksCollection' = blocksCollection]_vars

\* a ballot is stored and a /vote request naming no option of the vote has been refused
C19_Witness ==
  /\ \E i \in Indices : IsVote(Stored(i))
  /\ res.status = 400
  /\ res.error = "invalid option"

\* what validateChain can return over the documents coll
ValidateChainOver(coll) == {ValidateBlocks(Sorted(coll, f)) : f \in SortedFinds(coll)}

\* C20 (under SpecSeq): once validateChain has returned valid: false to an addBlock, it
\* returns valid: false in the state that follows whichever step is taken next, and an
\* addBlock whose validation is that step answers with the failure and inserts nothing.
C20_CorruptionIsPermanent ==
  [][~res.details.valid =>
       /\ \A r \in ValidateChainOver(blocksCollection') : ~r.valid
       /\ \A p \in Procs :
            (pc[p] = "addBlock:validateChain" /\ pc'[p] # pc[p]) =>
              /\ pc'[p] = "idle"
              /\ res'.status = 500
              /\ blocksCollection' = blocksCollection]_vars
====
